---- MODULE Spec2Model ----
(***************************************************************************)
(* The sports-match article generator: the Flask session state of app.py   *)
(* (processed_data) with its upload, chat and clear handlers, and the      *)
(* retrieval helpers of utils.py they call.                                *)
(*                                                                         *)
(* A text is a sequence of tokens: WS stands for a run of whitespace, the   *)
(* pair <<d, w>> for word w of document d (document 0: the words of chat   *)
(* queries), so a chunk (the sequence of its words, joined by single       *)
(* spaces in the code) shows the document it was cut from.  A vector is    *)
(* one number.                                                             *)
(* File storage (save, os.remove, shutil.rmtree) is taken to succeed.      *)
(***************************************************************************)
EXTENDS Integers, Sequences, FiniteSets, TLC

\* ------------------------------------------------------------------ bounds
MaxDocs == 2        \* documents 1..MaxDocs can be uploaded
MaxQueryWord == 1   \* words a chat query is made of
EmbMod == 3         \* vectors are the numbers 0..EmbMod-1
MaxVectors == 2     \* vectors of an index handed to get_relevant_chunks
MaxChunkArgs == 2   \* chunks handed to get_relevant_chunks
MaxK == 3           \* k handed to get_relevant_chunks
MaxWords == 4       \* words of a text handed to split_text_into_chunks
MaxChunkSize == 3   \* chunk_size and overlap handed to split_text_into_chunks
MaxSportWords == 3  \* words of a text handed to detect_sport_type
MaxRetrieved == 3   \* chunks handed to generate_mock_chat_response
MaxPotential == 2   \* names the patterns of extract_mock_star_players find

\* ------------------------------------------------------- program constants
chunk_size_default == 500
overlap_default == 50
k_default == 5

WS == <<0, 0>>

None == [tag |-> "None"]

\* ------------------------------------------------------------ str methods
\* str.strip(): drop leading and trailing whitespace
strip(s) ==
    IF \A i \in 1..Len(s) : s[i] = WS
    THEN <<>>
    ELSE LET first == CHOOSE i \in 1..Len(s) :
                        s[i] # WS /\ \A j \in 1..(i - 1) : s[j] = WS
             cut == CHOOSE c \in 0..(Len(s) - 1) :
                        s[Len(s) - c] # WS
                        /\ \A j \in (Len(s) - c + 1)..Len(s) : s[j] = WS
         IN  SubSeq(s, first, Len(s) - cut)

IsWord(t) == t # WS

\* str.split(): the whitespace-delimited words
split(s) == SelectSeq(s, IsWord)

\* ------------------------------------------------------------------ utils
\* The uploaded files: one fitz cannot open, one whose pages hold only
\* whitespace, and documents 1..MaxDocs.  Document d has (d-1) * stride + 1
\* words (so that the default chunking cuts it into d chunks), separated and
\* surrounded by whitespace.
Files == {[kind |-> "corrupt", doc |-> 0], [kind |-> "blank", doc |-> 0]}
         \cup {[kind |-> "doc", doc |-> d] : d \in 1..MaxDocs}

DocLen(d) == (d - 1) * (chunk_size_default - overlap_default) + 1

PageText(pdf) ==
    IF pdf.kind = "blank" THEN <<WS>>
    ELSE [i \in 1..(2 * DocLen(pdf.doc) + 1) |->
            IF i % 2 = 1 THEN WS ELSE <<pdf.doc, i \div 2>>]

\* extract_text_from_pdf: the stripped page text, "" when fitz raises
extract_text_from_pdf(pdf) ==
    IF pdf.kind = "corrupt" THEN <<>> ELSE strip(PageText(pdf))

\* range(0, n, step + 1): the range with a step one too wide
RangeFrom0_WideStep(n, step) ==
    IF step <= 0 \/ n <= 0 THEN <<>>
    ELSE [j \in 1..((n + step) \div (step + 1)) |-> (j - 1) * (step + 1)]

\* range(0, n - 1, step): the range stopped one short
RangeFrom0_StopEarly(n, step) ==
    IF step <= 0 \/ n <= 1 THEN <<>>
    ELSE [j \in 1..((n - 1 + step - 1) \div step) |-> (j - 1) * step]

\* range(0, n, step) of Python, as a sequence (step > 0; a negative step
\* from 0 gives the empty range)
RangeFrom0(n, step) ==
    IF step <= 0 \/ n <= 0 THEN <<>>
    ELSE [j \in 1..((n + step - 1) \div step) |-> (j - 1) * step]

\* words[i:] : the slice without its end
Slice_Unbounded(words, i, size) == SubSeq(words, i + 1, Len(words))

\* words[i + 1 : i + size] : the slice begun one word late
Slice_SkipFirst(words, i, size) ==
    SubSeq(words, i + 2, IF i + size < Len(words) THEN i + size ELSE Len(words))

\* words[i : i + size] of Python (0-based, 0 <= i): the end is clipped to
\* the list, a negative end counts from the end of the list
Slice(words, i, size) ==
    LET end == i + size
        stop == IF end < 0
                THEN (IF Len(words) + end < 0 THEN 0 ELSE Len(words) + end)
                ELSE IF end < Len(words) THEN end ELSE Len(words)
    IN  SubSeq(words, i + 1, stop)

NonEmptyChunk(c) == strip(c) # <<>>

split_text_into_chunks(text, chunk_size, overlap) ==
    LET words == split(text)
        starts == RangeFrom0(Len(words), chunk_size - overlap)
        windows == [j \in 1..Len(starts) |-> Slice(words, starts[j], chunk_size)]
    IN  SelectSeq(windows, NonEmptyChunk)

\* model.encode of one text: a fixed function of the text
encode(text) ==
    IF text = <<>> THEN 0 ELSE (text[1][1] + text[1][2] + Len(text)) % EmbMod

\* create_embeddings: one row per chunk; the empty 1-d array for no chunk
\* and, np.array([]), when the model raises
create_embeddings(chunks, modelOk) ==
    IF modelOk /\ chunks # <<>>
    THEN [tag |-> "ndarray", ndim |-> 2,
          rows |-> [i \in 1..Len(chunks) |-> encode(chunks[i])]]
    ELSE [tag |-> "ndarray", ndim |-> 1, rows |-> <<>>]

\* line 64 adding the rows after the first only
build_faiss_index_SkipFirst(embeddings, faissOk) ==
    IF embeddings.ndim < 2 \/ ~faissOk
    THEN None
    ELSE [tag |-> "IndexFlatL2", vectors |-> Tail(embeddings.rows)]

\* build_faiss_index: embeddings.shape[1] raises on a 1-d array, faiss may
\* raise; both are caught and None is returned
build_faiss_index(embeddings, faissOk) ==
    IF embeddings.ndim < 2 \/ ~faissOk
    THEN None
    ELSE [tag |-> "IndexFlatL2", vectors |-> embeddings.rows]

Dist(a, b) == (a - b) * (a - b)

\* faiss_index.search(query_vector, k): k labels (0-based positions of the
\* stored vectors by ascending L2 distance, then position), padded with -1
\* when fewer than k vectors are stored
search(index, qv, k) ==
    LET n == Len(index.vectors)
        Before(i, j) == \/ Dist(index.vectors[i], qv) < Dist(index.vectors[j], qv)
                        \/ /\ Dist(index.vectors[i], qv) = Dist(index.vectors[j], qv)
                           /\ i < j
        Rank(j) == Cardinality({i \in 1..n : Before(i, j)})
    IN  [r \in 1..k |->
            IF r <= n THEN (CHOOSE j \in 1..n : Rank(j) = r - 1) - 1 ELSE -1]

\* chunks[idx] of Python for an idx the loop lets through: negative idx
\* counts from the end
PyItem(chunks, idx) ==
    IF idx >= 0 THEN chunks[idx + 1] ELSE chunks[Len(chunks) + idx + 1]

\* idx passes "if idx < len(chunks)" and chunks[idx] raises IndexError
RaisesIndexError(chunks, idx) == idx < Len(chunks) /\ idx < -Len(chunks)

\* the guard of the retrieval loop
Passes(chunks, idx) == idx < Len(chunks)

RECURSIVE Collect(_, _)
Collect(chunks, indices) ==
    IF indices = <<>> THEN <<>>
    ELSE (IF Passes(chunks, Head(indices))
          THEN <<PyItem(chunks, Head(indices))>> ELSE <<>>)
         \o Collect(chunks, Tail(indices))

Returned(v) == [kind |-> "return", value |-> v]
Raised(e) == [kind |-> "raise", value |-> e]

\* get_relevant_chunks: every exception (encode failing, search on None,
\* search with k <= 0, IndexError) is caught and [] returned.  For k = 0 a
\* faiss build without the "k > 0" assertion searches and returns no label:
\* [] as well.
get_relevant_chunks(query, faiss_index, chunks, k, encodeOk) ==
    IF ~encodeOk \/ faiss_index = None \/ k <= 0
    THEN Returned(<<>>)
    ELSE LET indices == search(faiss_index, encode(query), k)
         IN  IF \E p \in 1..Len(indices) : RaisesIndexError(chunks, indices[p])
             THEN Returned(<<>>)
             ELSE Returned(Collect(chunks, indices))

\* the document a word or a text was taken from (0: none)
DocOfWord(w) == w[1]

DocOf(text) ==
    IF \A i \in 1..Len(text) : text[i] = WS
    THEN 0
    ELSE DocOfWord(text[CHOOSE i \in 1..Len(text) :
                            text[i] # WS /\ \A j \in 1..(i - 1) : text[j] = WS])

\* s.startswith(p)
startswith(s, p) == Len(s) >= Len(p) /\ SubSeq(s, 1, Len(p)) = p

\* os.environ, as far as the program reads it: HUGGINGFACE_API_TOKEN, None
\* when the variable is not set
placeholder_token == "hf_XXXXXXXXXXXXXXXXXXXXXXXXXXXXXXXXXXXXXXXX"

Str(v) == [tag |-> "str", value |-> v]

Tokens == {None, Str(""), Str(placeholder_token), Str("hf_live")}

Environs == [HUGGINGFACE_API_TOKEN : Tokens]

\* "not api_token or api_token == 'hf_XXX...'" (lines 686, 697, 756)
mock_mode(api_token) ==
    \/ api_token = None
    \/ api_token.value = ""
    \/ api_token.value = placeholder_token

\* call_huggingface_api: no request is sent; the text returned tells which
\* of the two cases the token is
call_huggingface_api(prompt, env) ==
    IF mock_mode(env.HUGGINGFACE_API_TOKEN)
    THEN "MOCK_RESPONSE: This is a test response. Please configure your HuggingFace API token for real AI responses."
    ELSE "Error: API token appears to be invalid. Please check your token at https://huggingface.co/settings/tokens"

\* lines 702 and 762 testing for "MOCK_RESPONSE:" only
generation_failed_MockOnly(result) == startswith(result, "MOCK_RESPONSE:")

\* result.startswith("Error:") or result.startswith("MOCK_RESPONSE:")
\* (lines 702, 762)
generation_failed(result) ==
    startswith(result, "Error:") \/ startswith(result, "MOCK_RESPONSE:")

\* The texts the fallback composer generates are kept as what they were
\* generated from.
generate_mock_article(text) == [tag |-> "str", about |-> DocOf(text)]

\* generate_article (lines 692-704)
generate_article(text, env) ==
    IF mock_mode(env.HUGGINGFACE_API_TOKEN)
    THEN generate_mock_article(text)
    ELSE LET result == call_huggingface_api(text, env)
         IN  IF generation_failed(result)
             THEN generate_mock_article(text)
             ELSE [tag |-> "str", generated |-> result]

extract_star_players(text) == <<[player |-> 1, of |-> DocOf(text)]>>

\* what generate_mock_chat_response answers, kept as the query and the
\* chunks it answers from
mock_chat_response(query, relevant_chunks) ==
    [tag |-> "str", answer_to |-> query,
     context |-> [i \in 1..Len(relevant_chunks) |-> DocOf(relevant_chunks[i])]]

\* generate_chat_response (lines 751-764)
generate_chat_response(query, relevant_chunks, env) ==
    IF mock_mode(env.HUGGINGFACE_API_TOKEN)
    THEN mock_chat_response(query, relevant_chunks)
    ELSE LET result == call_huggingface_api(<<query, relevant_chunks>>, env)
         IN  IF generation_failed(result)
             THEN mock_chat_response(query, relevant_chunks)
             ELSE [tag |-> "str", generated |-> result]

\* -------------------------------------------------------------------- app
VARIABLES
    processed_data,  \* app.py: the session state
    last,            \* the last request served and what it answered
    ingested,        \* the documents whose ingest ran to the end: cur, the
                     \* one in force since the last clear (0: none), and
                     \* old, the earlier ones
    call,            \* a direct call of one function, or the two requests
                     \* in flight of the threaded server
    environ          \* os.environ

vars == <<processed_data, last, ingested, call, environ>>

\* app.py, lines 24-30
EmptyData ==
    [article |-> None, star_players |-> <<>>, faiss_index |-> None,
     chunks |-> <<>>, embeddings |-> None]

\* no call of build_faiss_index made by a request
NoBuild == [called |-> FALSE, arg |-> None, out |-> None]

NoRequest ==
    [op |-> "none", input |-> None, failed_at |-> "none", status |-> 0,
     message |-> "", response |-> None, retrieved |-> <<>>,
     build |-> NoBuild]

NoCall == [made |-> FALSE, done |-> FALSE]

\* ---- upload
\* An upload request: one the checks of lines 44-61 turn away (no file
\* part, no file name, not a .pdf name, more than MAX_FILE_SIZE), or one
\* carrying a file that is read.
NoFile == [kind |-> "none", doc |-> 0]

UploadRequests ==
    {[kind |-> k, file |-> NoFile] : k \in {"nofile", "noname", "badtype", "toolarge"}}
    \cup {[kind |-> "ok", file |-> f] : f \in Files}

\* the steps of an ingest that can fail
UploadFaults == {"none", "chunk", "embed", "index", "article", "players"}

\* lines 93-98 with line 97 left out: the chunks of the document before stay
StoreIngest_KeepChunks(pd, article, star_players, faiss_index, chunks, embeddings) ==
    [article |-> article, star_players |-> star_players,
     faiss_index |-> faiss_index,
     chunks |-> IF pd.chunks # <<>> THEN pd.chunks ELSE chunks,
     embeddings |-> embeddings]

\* lines 93-98
StoreIngest(pd, article, star_players, faiss_index, chunks, embeddings) ==
    [article |-> article, star_players |-> star_players,
     faiss_index |-> faiss_index, chunks |-> chunks, embeddings |-> embeddings]

\* what lines 72 and 79 compute for each file, computed once
Extracted == [pdf \in Files |-> extract_text_from_pdf(pdf)]

Chunked ==
    [pdf \in Files |->
        split_text_into_chunks(Extracted[pdf], chunk_size_default, overlap_default)]

\* line 73 without its check
NoText_Unchecked(text) == FALSE

\* "if not text.strip()" (line 73)
NoText(text) == strip(text) = <<>>

\* upload_file: the new session state, the message flashed, the step the
\* ingest failed at and the call of build_faiss_index it made (line 85:
\* made with whatever create_embeddings returned).  A step that raises ends
\* in the except clause of line 110; create_embeddings and build_faiss_index
\* catch what they raise.
upload_file(pd, request, fault, env) ==
    LET text == Extracted[request.file]
        chunks == Chunked[request.file]
        embeddings == create_embeddings(chunks, fault # "embed")
        faiss_index == build_faiss_index(embeddings, fault # "index")
        article == generate_article(text, env)
        star_players == extract_star_players(text)
        Built == [called |-> TRUE, arg |-> embeddings,
                  out |-> Returned(faiss_index)]
        Out(data, message, step, build) ==
            [data |-> data, message |-> message, failed_at |-> step,
             build |-> build]
    IN  IF request.kind \in {"nofile", "noname"}
        THEN Out(pd, "No file selected", "request", NoBuild)
        ELSE IF request.kind = "badtype"
        THEN Out(pd, "Invalid file type. Please upload a PDF file.", "request",
                 NoBuild)
        ELSE IF request.kind = "toolarge"
        THEN Out(pd, "File too large. Maximum size is 16MB", "request", NoBuild)
        ELSE IF NoText(text)
        THEN Out(pd, "Could not extract text from PDF", "extract", NoBuild)
        ELSE IF fault = "chunk"
        THEN Out(pd, "Error processing file", fault, NoBuild)
        ELSE IF fault \in {"article", "players"}
        THEN Out(pd, "Error processing file", fault, Built)
        ELSE Out(StoreIngest(pd, article, star_players, faiss_index, chunks,
                             embeddings),
                 "PDF processed successfully!", fault, Built)

\* a fault strikes a step only of an ingest that gets as far as its steps
ReachesIngest(request) == request.kind = "ok" /\ ~NoText(Extracted[request.file])

Upload ==
    \E request \in UploadRequests, fault \in UploadFaults :
        /\ fault # "none" => ReachesIngest(request)
        /\ LET out == upload_file(processed_data, request, fault, environ)
           IN  /\ processed_data' = out.data
               /\ last' = [NoRequest EXCEPT !.op = "upload", !.input = request,
                                            !.failed_at = out.failed_at,
                                            !.status = 302,
                                            !.message = out.message,
                                            !.build = out.build]
               /\ ingested' =
                    IF out.failed_at = "none"
                    THEN [cur |-> request.file.doc,
                          old |-> (ingested.old \cup {ingested.cur}) \ {0}]
                    ELSE ingested
        /\ UNCHANGED <<call, environ>>

\* ---- chat
QueryWords == {<<0, w>> : w \in 1..MaxQueryWord}

Queries == {<<>>, <<WS>>}
           \cup {<<w>> : w \in QueryWords}
           \cup {<<WS, w, WS>> : w \in QueryWords}

\* the JSON body of a chat request: none, one without "query", one with
Bodies == {[json |-> FALSE, has_query |-> FALSE, query |-> <<>>],
           [json |-> TRUE, has_query |-> FALSE, query |-> <<>>]}
          \cup {[json |-> TRUE, has_query |-> TRUE, query |-> q] : q \in Queries}

\* what can fail once a chat gets to retrieval: encoding the query (caught
\* in get_relevant_chunks), generating the response (caught in chat)
ChatFaults == {"none", "encode", "generate"}

\* line 118 without .strip()
QueryOf_NoStrip(data) == IF data.has_query THEN data.query ELSE <<>>

\* data.get('query', '').strip()  (line 118)
QueryOf(data) == strip(IF data.has_query THEN data.query ELSE <<>>)

\* line 123 testing the chunks only
NotReady_ChunksOnly(pd) == pd.chunks = <<>>

\* line 123
NotReady(pd) == pd.faiss_index = None \/ pd.chunks = <<>>

\* chat: status, error message or response, and the chunks retrieved
chat(pd, data, fault, env) ==
    LET query == QueryOf(data)
        relevant_chunks ==
            get_relevant_chunks(query, pd.faiss_index, pd.chunks, k_default,
                                fault # "encode").value
        Out(status, message, response, retrieved) ==
            [status |-> status, message |-> message, response |-> response,
             retrieved |-> retrieved]
    IN  IF ~data.json
        THEN Out(500, "Chat error", None, <<>>)
        ELSE IF query = <<>>
        THEN Out(400, "Please enter a question", None, <<>>)
        ELSE IF NotReady(pd)
        THEN Out(400, "Please upload a PDF first", None, <<>>)
        ELSE IF fault = "generate"
        THEN Out(500, "Chat error", None, relevant_chunks)
        ELSE Out(200, "", generate_chat_response(query, relevant_chunks, env),
                 relevant_chunks)

ReachesRetrieval(pd, data) ==
    data.json /\ QueryOf(data) # <<>> /\ ~NotReady(pd)

Chat ==
    \E data \in Bodies, fault \in ChatFaults :
        /\ fault # "none" => ReachesRetrieval(processed_data, data)
        /\ LET out == chat(processed_data, data, fault, environ)
           IN  last' = [NoRequest EXCEPT !.op = "chat", !.input = data,
                                         !.failed_at = fault,
                                         !.status = out.status,
                                         !.message = out.message,
                                         !.response = out.response,
                                         !.retrieved = out.retrieved]
        /\ UNCHANGED <<processed_data, ingested, call, environ>>

\* lines 144-148 with line 147 left out
clear_data_KeepChunks(pd) ==
    [article |-> None, star_players |-> <<>>, faiss_index |-> None,
     chunks |-> pd.chunks, embeddings |-> None]

\* ---- clear (lines 144-148)
clear_data(pd) ==
    [article |-> None, star_players |-> <<>>, faiss_index |-> None,
     chunks |-> <<>>, embeddings |-> None]

Clear ==
    /\ processed_data' = clear_data(processed_data)
    /\ last' = [NoRequest EXCEPT !.op = "clear", !.status = 302,
                                 !.message = "All data cleared successfully!"]
    /\ ingested' = [cur |-> 0, old |-> (ingested.old \cup {ingested.cur}) \ {0}]
    /\ UNCHANGED <<call, environ>>

Init ==
    /\ processed_data = EmptyData
    /\ last = NoRequest
    /\ ingested = [cur |-> 0, old |-> {}]
    /\ call = NoCall
    /\ environ \in Environs

Next == Upload \/ Chat \/ Clear

Spec == Init /\ [][Next]_vars

\* ------------------------------------------- get_relevant_chunks, directly
\* The arguments of a direct call: None or any index of up to MaxVectors
\* vectors, the first n chunks of one-word chunks, any k from -1, any query
\* word, the query's encoding working or not.
Vectors == 0..(EmbMod - 1)

VectorSeqs == UNION {[1..n -> Vectors] : n \in 0..MaxVectors}

IndexArgs == {None} \cup {[tag |-> "IndexFlatL2", vectors |-> v] : v \in VectorSeqs}

ChunkArgs == {[i \in 1..n |-> <<<<1, i>>>>] : n \in 0..MaxChunkArgs}

KArgs == (0 - 1)..MaxK

CallArgs ==
    [faiss_index : IndexArgs, chunks : ChunkArgs, k : KArgs,
     query : {<<w>> : w \in QueryWords}, encodeOk : BOOLEAN]

InitRetrieve ==
    /\ processed_data = EmptyData
    /\ last = NoRequest
    /\ ingested = [cur |-> 0, old |-> {}]
    /\ environ = [HUGGINGFACE_API_TOKEN |-> None]
    /\ \E a \in CallArgs :
          call = [made |-> TRUE, done |-> FALSE, args |-> a, out |-> None]

CallGetRelevantChunks ==
    /\ call.made /\ ~call.done
    /\ call' = [call EXCEPT
                  !.done = TRUE,
                  !.out = get_relevant_chunks(call.args.query, call.args.faiss_index,
                                              call.args.chunks, call.args.k,
                                              call.args.encodeOk)]
    /\ UNCHANGED <<processed_data, last, ingested, environ>>

NextRetrieve == CallGetRelevantChunks

SpecRetrieve == InitRetrieve /\ [][NextRetrieve]_vars

\* ---------------------------------------- split_text_into_chunks, directly
\* The texts of a direct call: n words of document 1 separated by
\* whitespace, with or without whitespace before and after.
WordsText(n) ==
    [i \in 1..(IF n = 0 THEN 0 ELSE 2 * n - 1) |->
        IF i % 2 = 1 THEN <<1, (i + 1) \div 2>> ELSE WS]

ChunkTexts ==
    UNION {{lead \o WordsText(n) \o trail :
                lead \in {<<>>, <<WS>>}, trail \in {<<>>, <<WS>>}} :
           n \in 0..MaxWords}

SplitArgs ==
    [text : ChunkTexts, chunk_size : (0 - 1)..MaxChunkSize,
     overlap : (0 - 2)..MaxChunkSize]

InitChunk ==
    /\ processed_data = EmptyData
    /\ last = NoRequest
    /\ ingested = [cur |-> 0, old |-> {}]
    /\ environ = [HUGGINGFACE_API_TOKEN |-> None]
    /\ \E a \in SplitArgs :
          call = [made |-> TRUE, done |-> FALSE, args |-> a, pc |-> "start",
                  words |-> <<>>, starts |-> <<>>, pos |-> 0, chunks |-> <<>>,
                  out |-> None]

\* lines 39-43: the words, and the range of the loop; range() raises
\* ValueError for a step of zero
ChunkEnter ==
    /\ call.made /\ call.pc = "start"
    /\ LET words == split(call.args.text)
           step == call.args.chunk_size - call.args.overlap
       IN  call' = IF step = 0
                   THEN [call EXCEPT !.pc = "raised", !.done = TRUE,
                                     !.words = words,
                                     !.out = Raised("ValueError")]
                   ELSE [call EXCEPT !.pc = "loop", !.words = words,
                                     !.starts = RangeFrom0(Len(words), step),
                                     !.pos = 1]
    /\ UNCHANGED <<processed_data, last, ingested, environ>>

\* lines 44-46: one pass of the loop
ChunkIterate ==
    /\ call.made /\ call.pc = "loop" /\ call.pos <= Len(call.starts)
    /\ LET chunk == Slice(call.words, call.starts[call.pos], call.args.chunk_size)
       IN  call' = [call EXCEPT
                      !.pos = @ + 1,
                      !.chunks = IF NonEmptyChunk(chunk) THEN Append(@, chunk) ELSE @]
    /\ UNCHANGED <<processed_data, last, ingested, environ>>

\* line 47
ChunkReturn ==
    /\ call.made /\ call.pc = "loop" /\ call.pos > Len(call.starts)
    /\ call' = [call EXCEPT !.pc = "done", !.done = TRUE,
                            !.out = Returned(call.chunks)]
    /\ UNCHANGED <<processed_data, last, ingested, environ>>

NextChunk == ChunkEnter \/ ChunkIterate \/ ChunkReturn

\* a call that was begun runs on
SpecChunk == InitChunk /\ [][NextChunk]_vars /\ WF_vars(NextChunk)

\* ------------------------------------------------------ texts as strings
\* The rule engine of utils.py works on the characters of its texts: here a
\* text is a string.
UpperCase == "ABCDEFGHIJKLMNOPQRSTUVWXYZ"
LowerCase == "abcdefghijklmnopqrstuvwxyz"

lower_char(c) ==
    IF \E i \in 1..Len(UpperCase) : SubSeq(UpperCase, i, i) = c
    THEN LET i == CHOOSE j \in 1..Len(UpperCase) : SubSeq(UpperCase, j, j) = c
         IN  SubSeq(LowerCase, i, i)
    ELSE c

\* str.lower()
RECURSIVE lower(_)
lower(s) ==
    IF s = "" THEN ""
    ELSE lower_char(SubSeq(s, 1, 1)) \o lower(SubSeq(s, 2, Len(s)))

\* "t in s" of two strings
In(t, s) == \E i \in 1..(Len(s) - Len(t) + 1) : SubSeq(s, i, i + Len(t) - 1) = t

\* sep.join(strs)
RECURSIVE join(_, _)
join(sep, strs) ==
    IF strs = <<>> THEN ""
    ELSE IF Len(strs) = 1 THEN strs[1]
    ELSE strs[1] \o sep \o join(sep, Tail(strs))

\* where c first stands in s (0: nowhere)
find(s, c) ==
    IF In(c, s)
    THEN CHOOSE i \in 1..Len(s) :
            /\ SubSeq(s, i, i + Len(c) - 1) = c
            /\ \A j \in 1..(i - 1) : SubSeq(s, j, j + Len(c) - 1) # c
    ELSE 0

\* s.split() of a text whose whitespace is the space
RECURSIVE str_split(_)
str_split(s) ==
    LET i == find(s, " ")
    IN  IF s = "" THEN <<>>
        ELSE IF i = 0 THEN <<s>>
        ELSE IF i = 1 THEN str_split(SubSeq(s, 2, Len(s)))
        ELSE <<SubSeq(s, 1, i - 1)>> \o str_split(SubSeq(s, i + 1, Len(s)))

\* s[:n]
prefix(s, n) == SubSeq(s, 1, IF Len(s) < n THEN Len(s) ELSE n)

\* ---- detect_sport_type (lines 481-506)
cricket_terms ==
    <<"cricket", "wicket", "over", "ball", "bat", "bowl", "run", "century",
      "fifty", "innings", "stumps", "boundary", "six", "four", "lbw", "caught",
      "bowled">>

football_terms ==
    <<"football", "soccer", "goal", "penalty", "corner", "free kick", "offside",
      "yellow card", "red card", "goalkeeper", "midfielder", "striker",
      "defender">>

basketball_terms ==
    <<"basketball", "dunk", "three pointer", "free throw", "rebound", "assist",
      "steal", "block", "point guard", "center", "forward">>

tennis_terms ==
    <<"tennis", "serve", "ace", "set", "game", "match point", "deuce",
      "advantage", "forehand", "backhand", "volley">>

\* sum(1 for term in terms if term in text_lower)
term_count(terms, text_lower) ==
    Cardinality({i \in 1..Len(terms) : In(terms[i], text_lower)})

\* the keys of the dict of line 498, in its order
sports == <<"cricket", "football", "basketball", "tennis">>

\* the dict of lines 498-503
counts(text) ==
    LET text_lower == lower(text)
    IN  [sport \in {sports[i] : i \in 1..Len(sports)} |->
            IF sport = "cricket" THEN term_count(cricket_terms, text_lower)
            ELSE IF sport = "football" THEN term_count(football_terms, text_lower)
            ELSE IF sport = "basketball" THEN term_count(basketball_terms, text_lower)
            ELSE term_count(tennis_terms, text_lower)]

\* max(counts, key=counts.get): the first key, in the order of the dict,
\* that no key exceeds
max_key(c) ==
    sports[CHOOSE i \in 1..Len(sports) :
              /\ \A j \in 1..Len(sports) : c[sports[j]] <= c[sports[i]]
              /\ \A j \in 1..(i - 1) : c[sports[j]] < c[sports[i]]]

\* line 506
detect_sport_type(text) ==
    LET c == counts(text)
    IN  IF \E i \in 1..Len(sports) : c[sports[i]] > 0
        THEN max_key(c) ELSE "cricket"

\* ------------------------------------------- detect_sport_type, directly
\* The texts of a direct call: up to MaxSportWords words, some of them
\* terms of a sport, some holding a term inside ("surface": "ace"), some
\* half of a two-word term, one in upper case.
SportWords ==
    {"Wicket", "over", "goal", "free", "kick", "dunk", "surface", "the"}

SportTexts ==
    {join(" ", ws) : ws \in UNION {[1..n -> SportWords] : n \in 0..MaxSportWords}}

InitSport ==
    /\ processed_data = EmptyData
    /\ last = NoRequest
    /\ ingested = [cur |-> 0, old |-> {}]
    /\ environ = [HUGGINGFACE_API_TOKEN |-> None]
    /\ \E t \in SportTexts :
          call = [made |-> TRUE, done |-> FALSE, args |-> [text |-> t],
                  out |-> None]

CallDetectSportType ==
    /\ call.made /\ ~call.done
    /\ call' = [call EXCEPT !.done = TRUE,
                            !.out = Returned(detect_sport_type(call.args.text))]
    /\ UNCHANGED <<processed_data, last, ingested, environ>>

NextSport == CallDetectSportType

SpecSport == InitSport /\ [][NextSport]_vars

\* ---- generate_mock_chat_response (lines 536-678)
Digits == "0123456789"

\* re.match(r'\d+[-/]?\d*', word): the word begins with a digit
IsNumber(word) ==
    word # "" /\ \E i \in 1..Len(Digits) : SubSeq(Digits, i, i) = SubSeq(word, 1, 1)

\* line 545
numbers_of(context) == SelectSeq(str_split(context), IsNumber)

\* any(word in query_lower for word in words)
any_in(words, query_lower) == \E i \in 1..Len(words) : In(words[i], query_lower)

\* line 548 without "who"
player_words_NoWho ==
    <<"player", "name", "star", "performer", "captain", "batsman", "bowler">>

\* the keyword groups, in the order they are tested
player_words ==
    <<"player", "who", "name", "star", "performer", "captain", "batsman", "bowler">>

\* line 565 without "final"
score_words_NoFinal == <<"score", "result", "runs", "goals", "points">>

score_words == <<"score", "result", "runs", "goals", "points", "final">>

performance_words ==
    <<"best", "top", "highest", "most", "outstanding", "stat", "performance">>

summary_words == <<"summary", "analysis", "review", "highlight", "key", "important">>

cricket_words == <<"wicket", "catch", "boundary", "six", "four", "over", "innings">>

football_words == <<"goal", "assist", "penalty", "corner", "foul", "card">>

basketball_words == <<"basket", "dunk", "three", "rebound", "assist", "steal">>

time_words == <<"when", "time", "period", "minute", "first", "second", "half">>

team_words == <<"team", "strategy", "tactic", "formation", "captain", "coach">>

greeting_words == <<"hello", "hi", "hey">>

thanks_words == <<"thank", "thanks">>

praise_words == <<"good", "great", "excellent">>

\* the names of line 549
default_names == {"Rahul Sharma", "Virat Patel", "Rohit Singh"}

\* the answer of one sport out of four (the last for tennis)
by_sport(sport_type, cricket, football, basketball, other) ==
    IF sport_type = "cricket" THEN cricket
    ELSE IF sport_type = "football" THEN football
    ELSE IF sport_type = "basketball" THEN basketball
    ELSE other

\* generate_mock_chat_response, given what extract_mock_star_players
\* returned for the context and what random.choice(numbers) returns
generate_mock_chat_response(query, relevant_chunks, extracted_players, choice) ==
    LET context == join(" ", SubSeq(relevant_chunks, 1,
                                    IF Len(relevant_chunks) < 2
                                    THEN Len(relevant_chunks) ELSE 2))
        query_lower == lower(query)
        sport_type == detect_sport_type(context)
        numbers == numbers_of(context)
        has_players == extracted_players # <<>>
        dot == find(context, ".")
        relevant_sentence == IF dot = 0 THEN context ELSE SubSeq(context, 1, dot - 1)
    IN  IF any_in(player_words, query_lower)
        THEN IF /\ has_players
                /\ \E i \in 1..Len(extracted_players) :
                      extracted_players[i] \notin default_names
             THEN IF Len(extracted_players) = 1
                  THEN "Key player: " \o extracted_players[1]
                  ELSE "Star players: "
                       \o join(", ", SubSeq(extracted_players, 1, 2))
             ELSE by_sport(sport_type,
                    "Key performers showed excellent batting and bowling skills.",
                    "Standout players controlled midfield and created chances.",
                    "Top scorers dominated with precise shooting.",
                    "Multiple players delivered outstanding performances.")
        ELSE IF any_in(score_words, query_lower)
        THEN IF numbers # <<>>
             THEN by_sport(sport_type,
                    "Match score: " \o choice \o " runs. Close contest.",
                    "Final score: " \o choice \o ". Well-contested match.",
                    "Final points: " \o choice \o ". High-scoring game.",
                    "Final result: " \o choice \o ". Competitive match.")
             ELSE "Close contest with competitive scoring throughout."
        ELSE IF any_in(performance_words, query_lower)
        THEN IF has_players /\ numbers # <<>>
             THEN "Top performer: " \o extracted_players[1] \o " with "
                  \o choice \o "."
             ELSE IF has_players
             THEN "Outstanding performance by " \o extracted_players[1] \o "."
             ELSE by_sport(sport_type,
                    "Excellent batting and bowling statistics recorded.",
                    "Strong attacking and defensive metrics.",
                    "High shooting percentages and rebounds.",
                    "Impressive performance statistics across the board.")
        ELSE IF any_in(summary_words, query_lower)
        THEN by_sport(sport_type,
               "Well-balanced contest with excellent batting, bowling, and fielding displays.",
               "Tactical battle with good attacking play and solid defensive work.",
               "Fast-paced game with excellent shooting and strong rebounding.",
               "Competitive match with high-quality performances from both teams.")
        ELSE IF sport_type = "cricket" /\ any_in(cricket_words, query_lower)
        THEN "Exciting cricket action with boundaries, wickets, and spectacular catches."
        ELSE IF sport_type = "football" /\ any_in(football_words, query_lower)
        THEN "Dynamic football with strategic plays and decisive moments."
        ELSE IF sport_type = "basketball" /\ any_in(basketball_words, query_lower)
        THEN "High-energy basketball with impressive shooting and athletic plays."
        ELSE IF any_in(time_words, query_lower)
        THEN by_sport(sport_type,
               "Key moments spread across both innings.",
               "Important events in both halves.",
               "Crucial plays throughout all quarters.",
               "Significant moments distributed across the match.")
        ELSE IF any_in(team_words, query_lower)
        THEN by_sport(sport_type,
               "Well-planned team strategy with effective field placements.",
               "Strategic formations and tactical substitutions.",
               "Effective team coordination and play execution.",
               "Strong team performance with good strategic decisions.")
        ELSE IF startswith(query_lower, "what")
        THEN IF In("happened", query_lower)
             THEN "Exciting " \o sport_type \o " match with competitive play throughout."
             ELSE IF In("was", query_lower)
             THEN "It was a well-contested " \o sport_type \o " encounter."
             ELSE IF context # ""
             THEN "Key match details: " \o prefix(context, 60) \o "..."
             ELSE "Competitive match with good performances."
        ELSE IF startswith(query_lower, "how")
        THEN IF In("did", query_lower)
             THEN "Through skillful play and strategic execution."
             ELSE IF In("many", query_lower)
             THEN "Multiple "
                  \o by_sport(sport_type, "runs", "goals", "points", "points")
                  \o " scored."
             ELSE "Excellent execution of game plans by both teams."
        ELSE IF startswith(query_lower, "why")
        THEN "Due to superior strategy and individual performances."
        ELSE IF startswith(query_lower, "where")
        THEN "At the home ground with excellent playing conditions."
        ELSE IF any_in(greeting_words, query_lower)
        THEN "Hello! I can help with questions about this " \o sport_type
             \o " match."
        ELSE IF any_in(thanks_words, query_lower)
        THEN "You're welcome! Feel free to ask more about the match."
        ELSE IF any_in(praise_words, query_lower)
        THEN "Yes, it was an excellent match with quality performances!"
        ELSE IF str_split(context) # <<>>
        THEN "From the match: " \o relevant_sentence \o "..."
        ELSE "Please upload a match PDF to get specific insights."

\* ---------------------------------- generate_mock_chat_response, directly
\* The queries of a direct call: one or more for each rule, in either case,
\* one with a keyword inside a longer word ("tournament": "name").
ChatQueries ==
    {"What was the score?", "the FINAL", "who scored", "tournament points",
     "top runs", "best moment", "summary", "six", "when", "team",
     "what happened", "how many", "why", "where", "hello", "thanks", "good",
     "xyz", ""}

\* the chunks handed over: of each sport, with and without a number
ChatChunks == {"Wicket over.", "goal kick", "dunk 245", "(7) the end"}

ChatChunkSeqs == UNION {[1..n -> ChatChunks] : n \in 0..MaxRetrieved}

\* lists extract_mock_star_players returns: the names of line 549 only, or
\* others among them
PlayerLists ==
    {<<"Rahul Sharma", "Virat Patel", "Rohit Singh">>,
     <<"Sachin Rao", "Rahul Sharma">>,
     <<"Amit Kumar", "Sachin Rao", "Virat Patel">>}

\* what random.choice(numbers) may return ("" when it is not called)
Choices(relevant_chunks) ==
    LET numbers == numbers_of(join(" ", SubSeq(relevant_chunks, 1,
                                              IF Len(relevant_chunks) < 2
                                              THEN Len(relevant_chunks) ELSE 2)))
    IN  IF numbers = <<>> THEN {""} ELSE {numbers[i] : i \in 1..Len(numbers)}

InitMockChat ==
    /\ processed_data = EmptyData
    /\ last = NoRequest
    /\ ingested = [cur |-> 0, old |-> {}]
    /\ environ = [HUGGINGFACE_API_TOKEN |-> None]
    /\ \E q \in ChatQueries, c \in ChatChunkSeqs :
          call = [made |-> TRUE, done |-> FALSE,
                  args |-> [query |-> q, relevant_chunks |-> c],
                  extracted_players |-> <<>>, out |-> None]

CallGenerateMockChatResponse ==
    /\ call.made /\ ~call.done
    /\ \E players \in PlayerLists, choice \in Choices(call.args.relevant_chunks) :
          call' = [call EXCEPT
                     !.done = TRUE,
                     !.extracted_players = players,
                     !.out = Returned(generate_mock_chat_response(
                                 call.args.query, call.args.relevant_chunks,
                                 players, choice))]
    /\ UNCHANGED <<processed_data, last, ingested, environ>>

NextMockChat == CallGenerateMockChatResponse

SpecMockChat == InitMockChat /\ [][NextMockChat]_vars

\* ------------------------------------------- two requests, thread by thread
\* app.run (app.py line 171) serves each request in a thread of its own and
\* nothing guards processed_data: a request that writes it (an upload, lines
\* 94-98, or a clear, lines 144-148) and a chat (lines 123-131) go on line
\* by line in any order.

\* the keys in the order lines 94-98 and 144-148 assign them
StoreOrder == <<"article", "star_players", "faiss_index", "chunks", "embeddings">>

\* the files an upload gets as far as storing
FilesWithText == {f \in Files : ~NoText(Extracted[f])}

\* what lines 72-91 of an upload leave in its local variables
IngestOf(f, env) == upload_file(EmptyData, [kind |-> "ok", file |-> f], "none", env).data

\* the writing request: an upload that has yet to compute its values, or a
\* clear, about to assign
Writers ==
    {[op |-> "upload", file |-> f, pc |-> 0, values |-> EmptyData] : f \in FilesWithText}
    \cup {[op |-> "clear", file |-> NoFile, pc |-> 1, values |-> clear_data(EmptyData)]}

\* a chat with a query, about to run line 123
Reader ==
    [pc |-> "check_index", query |-> <<<<0, 1>>>>, faiss_index |-> None,
     chunks |-> <<>>, status |-> 0, relevant_chunks |-> <<>>]

\* the session the two requests find: empty, or left by an ingest
InitThreads ==
    /\ last = NoRequest
    /\ environ = [HUGGINGFACE_API_TOKEN |-> None]
    /\ \E d \in {0} \cup {f.doc : f \in FilesWithText}, w \in Writers :
          /\ ingested = [cur |-> d, old |-> {}]
          /\ processed_data =
                IF d = 0 THEN EmptyData
                ELSE IngestOf(CHOOSE f \in FilesWithText : f.doc = d, environ)
          /\ call = [made |-> TRUE, done |-> FALSE, writer |-> w,
                     reader |-> Reader]

\* upload_file, lines 44-91: nothing of the session is read or written
ThreadUploadCompute ==
    /\ call.made /\ call.writer.op = "upload" /\ call.writer.pc = 0
    /\ call' = [call EXCEPT !.writer.pc = 1,
                            !.writer.values = IngestOf(call.writer.file, environ)]
    /\ UNCHANGED <<processed_data, last, ingested, environ>>

\* one of the lines 94-98 of upload_file, or of the lines 144-148 of
\* clear_data
ThreadStore ==
    /\ call.made /\ call.writer.pc \in 1..Len(StoreOrder)
    /\ LET key == StoreOrder[call.writer.pc]
       IN  processed_data' = [processed_data EXCEPT ![key] = call.writer.values[key]]
    /\ call' = [call EXCEPT !.writer.pc = @ + 1]
    /\ UNCHANGED <<last, ingested, environ>>

\* chat, line 123, left operand: "not processed_data['faiss_index']"
ChatCheckIndex ==
    /\ call.made /\ call.reader.pc = "check_index"
    /\ call' = IF processed_data.faiss_index = None
               THEN [call EXCEPT !.reader.pc = "done", !.reader.status = 400,
                                 !.done = TRUE]
               ELSE [call EXCEPT !.reader.pc = "check_chunks"]
    /\ UNCHANGED <<processed_data, last, ingested, environ>>

\* chat, line 123, right operand: "not processed_data['chunks']"
ChatCheckChunks ==
    /\ call.made /\ call.reader.pc = "check_chunks"
    /\ call' = IF processed_data.chunks = <<>>
               THEN [call EXCEPT !.reader.pc = "done", !.reader.status = 400,
                                 !.done = TRUE]
               ELSE [call EXCEPT !.reader.pc = "read_index"]
    /\ UNCHANGED <<processed_data, last, ingested, environ>>

\* chat, line 129: the second argument of get_relevant_chunks
ChatReadIndex ==
    /\ call.made /\ call.reader.pc = "read_index"
    /\ call' = [call EXCEPT !.reader.pc = "read_chunks",
                            !.reader.faiss_index = processed_data.faiss_index]
    /\ UNCHANGED <<processed_data, last, ingested, environ>>

\* chat, line 130: the third argument
ChatReadChunks ==
    /\ call.made /\ call.reader.pc = "read_chunks"
    /\ call' = [call EXCEPT !.reader.pc = "retrieve",
                            !.reader.chunks = processed_data.chunks]
    /\ UNCHANGED <<processed_data, last, ingested, environ>>

\* chat, lines 127-136: the retrieval over what was read, and the answer
ChatRetrieve ==
    /\ call.made /\ call.reader.pc = "retrieve"
    /\ call' = [call EXCEPT
                  !.reader.pc = "done", !.reader.status = 200, !.done = TRUE,
                  !.reader.relevant_chunks =
                      get_relevant_chunks(call.reader.query, call.reader.faiss_index,
                                          call.reader.chunks, k_default, TRUE).value]
    /\ UNCHANGED <<processed_data, last, ingested, environ>>

NextThreads ==
    \/ ThreadUploadCompute
    \/ ThreadStore
    \/ ChatCheckIndex
    \/ ChatCheckChunks
    \/ ChatReadIndex
    \/ ChatReadChunks
    \/ ChatRetrieve

SpecThreads == InitThreads /\ [][NextThreads]_vars

\* ---- extract_mock_star_players (lines 302-456)
\* lines 307-321
realistic_player_names ==
    <<"Virat Kohli", "Rohit Sharma", "MS Dhoni", "Ravindra Jadeja", "Jasprit Bumrah",
      "KL Rahul", "Hardik Pandya", "Rishabh Pant", "Shikhar Dhawan", "Mohammed Shami",
      "Kane Williamson", "Joe Root", "Steve Smith", "David Warner", "Ben Stokes",
      "Babar Azam", "Shaheen Afridi", "Quinton de Kock", "AB de Villiers",
      "Faf du Plessis",
      "Sunil Chhetri", "Gurpreet Sandhu", "Sandesh Jhingan", "Anirudh Thapa",
      "Brandon Fernandes", "Manvir Singh", "Liston Colaco", "Sahal Samad",
      "Lallianzuala Chhangte", "Akash Mishra",
      "Satnam Singh", "Sim Bhullar", "Amjyot Singh", "Vishesh Bhriguvanshi",
      "Amrit Pal Singh",
      "Rohan Bopanna", "Divij Sharan", "Ramkumar Ramanathan",
      "Prajnesh Gunneswaran", "Yuki Bhambri",
      "Arjun Patel", "Rahul Sharma", "Vikram Singh", "Aditya Kumar", "Rohan Gupta",
      "Karan Malhotra", "Ankit Verma", "Siddharth Jain", "Nikhil Agarwal",
      "Varun Reddy">>

\* get_names_by_sport, lines 511-528
sport_specific_names ==
    [cricket |->
        <<"Virat Kohli", "Rohit Sharma", "MS Dhoni", "Ravindra Jadeja",
          "Jasprit Bumrah", "KL Rahul", "Hardik Pandya", "Rishabh Pant",
          "Kane Williamson", "Joe Root", "Steve Smith">>,
     football |->
        <<"Sunil Chhetri", "Gurpreet Sandhu", "Sandesh Jhingan", "Anirudh Thapa",
          "Brandon Fernandes", "Manvir Singh", "Liston Colaco", "Sahal Samad",
          "Akash Mishra", "Lallianzuala Chhangte">>,
     basketball |->
        <<"Satnam Singh", "Sim Bhullar", "Amjyot Singh", "Vishesh Bhriguvanshi",
          "Amrit Pal Singh", "Arjun Patel", "Vikram Singh", "Aditya Kumar">>,
     tennis |->
        <<"Rohan Bopanna", "Divij Sharan", "Ramkumar Ramanathan",
          "Prajnesh Gunneswaran", "Yuki Bhambri", "Ankit Verma", "Siddharth Jain",
          "Nikhil Agarwal">>]

\* what random.sample(population, k) may return: k elements of the
\* population at different places, in any order
sample(population, k) ==
    {[i \in 1..k |-> population[f[i]]] :
        f \in {g \in [1..k -> 1..Len(population)] :
                  \A i \in 1..k : \A j \in 1..k : i # j => g[i] # g[j]}}

\* get_names_by_sport: the lists it may return
get_names_by_sport(sport_type, all_names) ==
    IF sport_type \in DOMAIN sport_specific_names
    THEN sample(sport_specific_names[sport_type],
                IF Len(sport_specific_names[sport_type]) < 3
                THEN Len(sport_specific_names[sport_type]) ELSE 3)
    ELSE sample(all_names, IF Len(all_names) < 3 THEN Len(all_names) ELSE 3)

\* lines 428-433: the names of two words or more, each once
RECURSIVE first_pass(_, _, _)
first_pass(potential_players, unique_players, seen) ==
    IF potential_players = <<>>
    THEN [unique_players |-> unique_players, seen |-> seen]
    ELSE LET player == Head(potential_players)
             player_lower == lower(player)
         IN  IF player_lower \notin seen /\ In(" ", player)
             THEN first_pass(Tail(potential_players),
                             Append(unique_players, player),
                             seen \cup {player_lower})
             ELSE first_pass(Tail(potential_players), unique_players, seen)

\* lines 436-440: the other names, up to three in all
RECURSIVE second_pass(_, _, _)
second_pass(potential_players, unique_players, seen) ==
    IF potential_players = <<>>
    THEN [unique_players |-> unique_players, seen |-> seen]
    ELSE LET player == Head(potential_players)
             player_lower == lower(player)
         IN  IF player_lower \notin seen /\ Len(unique_players) < 3
             THEN second_pass(Tail(potential_players),
                              Append(unique_players, player),
                              seen \cup {player_lower})
             ELSE second_pass(Tail(potential_players), unique_players, seen)

\* lines 424-456 of extract_mock_star_players, given the names its patterns
\* found in the text (potential_players), the sport detected in the text
\* and the names get_names_by_sport returns
extract_mock_star_players(potential_players, sport_type, additional_names) ==
    LET full == first_pass(potential_players, <<>>, {})
        unique_players ==
            second_pass(potential_players, full.unique_players, full.seen).unique_players
    IN  IF Len(unique_players) >= 2
        THEN prefix(unique_players, 3)
        ELSE IF Len(unique_players) = 1
        THEN prefix(unique_players \o prefix(additional_names, 2), 3)
        ELSE prefix(additional_names, 3)

\* ------------------------------------- extract_mock_star_players, directly
\* The names the patterns may find: one of a pool, one of another pool, one
\* of a single word; up to MaxPotential finds, any of them more than once.
PotentialNames == {"Virat Kohli", "Sunil Chhetri", "Kohli"}

PotentialLists == UNION {[1..n -> PotentialNames] : n \in 0..MaxPotential}

InitPlayers ==
    /\ processed_data = EmptyData
    /\ last = NoRequest
    /\ ingested = [cur |-> 0, old |-> {}]
    /\ environ = [HUGGINGFACE_API_TOKEN |-> None]
    /\ \E p \in PotentialLists, sp \in DOMAIN sport_specific_names :
          call = [made |-> TRUE, done |-> FALSE,
                  args |-> [potential_players |-> p, sport_type |-> sp],
                  out |-> None]

CallExtractMockStarPlayers ==
    /\ call.made /\ ~call.done
    /\ \E additional_names \in
             get_names_by_sport(call.args.sport_type, realistic_player_names) :
          call' = [call EXCEPT
                     !.done = TRUE,
                     !.out = Returned(extract_mock_star_players(
                                 call.args.potential_players,
                                 call.args.sport_type, additional_names))]
    /\ UNCHANGED <<processed_data, last, ingested, environ>>

NextPlayers == CallExtractMockStarPlayers

SpecPlayers == InitPlayers /\ [][NextPlayers]_vars

\* ================================================================= claims
AllWhitespace(text) == \A i \in 1..Len(text) : text[i] = WS

Range(f) == {f[i] : i \in DOMAIN f}

\* the steps after text extraction at which an ingest can fail
StepsAfterExtraction == {"chunk", "embed", "index", "article", "players"}

FullyPopulated(pd) ==
    /\ pd.faiss_index # None
    /\ pd.chunks # <<>>
    /\ pd.embeddings # None
    /\ pd.embeddings.rows # <<>>
    /\ pd.article # None

\* C1: an upload that fails at a step after text extraction (chunking,
\* embedding creation, index build, article generation, star-player
\* extraction) leaves every field of processed_data as it was.
C1_FailedIngestKeepsState ==
    [][(last'.op = "upload" /\ last'.failed_at \in StepsAfterExtraction)
          => processed_data' = processed_data]_vars

\* C2: in every reachable state processed_data is either entirely empty or
\* entirely populated (index, chunks, embeddings and article all present).
C2_EmptyOrPopulated ==
    processed_data = EmptyData \/ FullyPopulated(processed_data)

\* C3: while no ingest has run to the end since startup or the last clear,
\* a chat with a non-empty query is answered 400 'Please upload a PDF first'
\* and carries no generated response.
C3_NotReadyBeforeIngest ==
    (/\ last.op = "chat"
     /\ last.input.json /\ last.input.has_query
     /\ ~AllWhitespace(last.input.query)
     /\ ingested.cur = 0)
    => (/\ last.status = 400
        /\ last.message = "Please upload a PDF first"
        /\ last.response = None)

\* C3 witness: such a chat was made in the state a failed ingest left behind
\* (chunks stored, no index).
C3_Witness ==
    /\ last.op = "chat"
    /\ last.input.json /\ last.input.has_query
    /\ ~AllWhitespace(last.input.query)
    /\ ingested.cur = 0
    /\ processed_data.chunks # <<>>
    /\ last.message = "Please upload a PDF first"

\* C4: an upload whose extracted text is empty or whitespace-only is turned
\* away with 'Could not extract text from PDF' and leaves processed_data as
\* it was.
C4_EmptyTextKeepsState ==
    [][(/\ last'.op = "upload"
        /\ last'.input.kind = "ok"
        /\ AllWhitespace(Extracted[last'.input.file]))
          => (/\ processed_data' = processed_data
              /\ last'.message = "Could not extract text from PDF")]_vars

\* C4 witness: a file without text was uploaded over a populated state.
C4_Witness ==
    /\ last.op = "upload"
    /\ last.input.kind = "ok"
    /\ last.input.file.kind = "blank"
    /\ last.message = "Could not extract text from PDF"
    /\ FullyPopulated(processed_data)

\* C5: every chunk a chat retrieves is a chunk of the document ingested
\* last, and none comes from a document ingested before it.
C5_RetrievesCurrentDocumentOnly ==
    (last.op = "chat" /\ last.retrieved # <<>>)
    => (/\ ingested.cur # 0
        /\ \A i \in 1..Len(last.retrieved) :
              /\ last.retrieved[i]
                    \in Range(Chunked[[kind |-> "doc", doc |-> ingested.cur]])
              /\ \A w \in Range(last.retrieved[i]) :
                    DocOfWord(w) \notin (ingested.old \ {ingested.cur}))

\* C5 witness: after document 1 and then document 2 were ingested, a chat
\* was answered from retrieved chunks.
C5_Witness ==
    /\ last.op = "chat"
    /\ last.status = 200
    /\ last.retrieved # <<>>
    /\ ingested.cur = 2
    /\ 1 \in ingested.old

\* C6: after a clear, processed_data is the empty state, whatever it was
\* before, and clearing it again gives the same state.
C6_ClearResets ==
    last.op = "clear"
    => (/\ processed_data = EmptyData
        /\ clear_data(processed_data) = processed_data)

\* C6 witness: a clear was served after some document had been ingested.
C6_Witness ==
    /\ last.op = "clear"
    /\ ingested.old # {}
    /\ processed_data = EmptyData

\* C7: a chat whose query is empty or whitespace-only is answered 400
\* 'Please enter a question' in every session state.
C7_EmptyQueryRejected ==
    (/\ last.op = "chat"
     /\ last.input.json
     /\ (last.input.has_query => AllWhitespace(last.input.query)))
    => (/\ last.status = 400
        /\ last.message = "Please enter a question")

\* C7 witness: a whitespace-only query was asked in the empty state.
C7_Witness ==
    /\ last.op = "chat"
    /\ last.input.json /\ last.input.has_query
    /\ last.input.query = <<WS>>
    /\ processed_data = EmptyData
    /\ last.message = "Please enter a question"

\* C8: get_relevant_chunks called with no index or with no chunks fails
\* with NotReady, it does not return a list.
C8_RetrieveFailsFastWhenNotReady ==
    (call.done /\ (call.args.faiss_index = None \/ call.args.chunks = <<>>))
    => call.out = Raised("NotReady")

\* the chunk texts at the positions of indices that lie in 0..len(chunks)-1
RECURSIVE InRangeChunks(_, _)
InRangeChunks(chunks, indices) ==
    IF indices = <<>> THEN <<>>
    ELSE (IF Head(indices) >= 0 /\ Head(indices) < Len(chunks)
          THEN <<chunks[Head(indices) + 1]>> ELSE <<>>)
         \o InRangeChunks(chunks, Tail(indices))

\* C9: when the index holds n < k vectors (one per chunk), retrieval
\* returns exactly n chunk texts, each stored chunk exactly once.
C9_FewerThanKReturnsAll ==
    (/\ call.done
     /\ call.args.encodeOk
     /\ call.args.faiss_index # None
     /\ Len(call.args.faiss_index.vectors) = Len(call.args.chunks)
     /\ Len(call.args.chunks) < call.args.k)
    => (/\ call.out.kind = "return"
        /\ Len(call.out.value) = Len(call.args.chunks)
        /\ \A i \in 1..Len(call.args.chunks) :
              Cardinality({p \in 1..Len(call.out.value) :
                              call.out.value[p] = call.args.chunks[i]}) = 1)

\* C10: every index the search returns outside 0..len(chunks)-1, negative
\* ones included, adds no chunk and raises nothing; the result is the chunks
\* at the in-range indices, in the order searched.
C10_OutOfRangeSkipped ==
    (/\ call.done
     /\ call.args.encodeOk
     /\ call.args.faiss_index # None)
    => call.out =
         Returned(InRangeChunks(call.args.chunks,
                                search(call.args.faiss_index,
                                       encode(call.args.query), call.args.k)))

\* C11: get_relevant_chunks called with k <= 0 fails with
\* InvalidConfiguration, it does not return a list.
C11_NonPositiveKRejected ==
    (/\ call.done
     /\ call.args.encodeOk
     /\ call.args.faiss_index # None
     /\ call.args.k <= 0)
    => call.out = Raised("InvalidConfiguration")

\* the whitespace-delimited words of a text, in order
WordsOf(text) == SelectSeq(text, LAMBDA t : t # WS)

ChunkSizesAtMost(size) == \A j \in 1..Len(call.chunks) : Len(call.chunks[j]) <= size

\* C12 as claimed: with overlap < chunk_size, no chunk of
\* split_text_into_chunks has more than chunk_size words.
C12_ChunksWithinSize ==
    call.args.overlap < call.args.chunk_size
    => ChunkSizesAtMost(call.args.chunk_size)

\* C12 amended: with 0 <= chunk_size and overlap < chunk_size,
\* split_text_into_chunks returns, and no chunk it collects has more than
\* chunk_size words.
C12_ChunksWithinSizeFromZero ==
    /\ []((0 <= call.args.chunk_size /\ call.args.overlap < call.args.chunk_size)
             => ChunkSizesAtMost(call.args.chunk_size))
    /\ <>((0 <= call.args.chunk_size /\ call.args.overlap < call.args.chunk_size)
             => (call.pc = "done" /\ call.out = Returned(call.chunks)))

\* C12 witness: a call returned several chunks, one of them full.
C12_Witness ==
    /\ call.pc = "done"
    /\ 0 < call.args.overlap /\ call.args.overlap < call.args.chunk_size
    /\ Len(call.chunks) >= 2
    /\ \E j \in 1..Len(call.chunks) : Len(call.chunks[j]) = call.args.chunk_size

\* C13: with overlap >= chunk_size, split_text_into_chunks fails; it does
\* not return a chunk list.
C13_NonPositiveStrideRejected ==
    call.args.overlap >= call.args.chunk_size => call.pc # "done"

\* C14 as claimed: a text of n words, 1 <= n < chunk_size, with
\* 0 <= overlap < chunk_size, gives exactly one chunk, of all its words.
C14_ShortTextOneChunk ==
    (/\ call.pc = "done"
     /\ 1 <= Len(WordsOf(call.args.text))
     /\ Len(WordsOf(call.args.text)) < call.args.chunk_size
     /\ 0 <= call.args.overlap /\ call.args.overlap < call.args.chunk_size)
    => call.out = Returned(<<WordsOf(call.args.text)>>)

\* C14 amended: a text of n words, 1 <= n <= chunk_size - overlap, with
\* 0 <= overlap < chunk_size, gives exactly one chunk, of all its words.
C14_TextWithinStrideOneChunk ==
    (/\ call.pc = "done"
     /\ 1 <= Len(WordsOf(call.args.text))
     /\ Len(WordsOf(call.args.text)) <= call.args.chunk_size - call.args.overlap
     /\ 0 <= call.args.overlap /\ call.args.overlap < call.args.chunk_size)
    => call.out = Returned(<<WordsOf(call.args.text)>>)

\* C14 witness: a text of as many words as the stride, with whitespace
\* around it, came back as one chunk.
C14_Witness ==
    /\ call.pc = "done"
    /\ Len(WordsOf(call.args.text)) = 2
    /\ call.args.chunk_size = 3 /\ call.args.overlap = 1
    /\ Head(call.args.text) = WS
    /\ call.out = Returned(<<WordsOf(call.args.text)>>)

\* the failure value of create_embeddings (np.array([]))
FailedEmbedding(embeddings) == embeddings.ndim = 1 /\ embeddings.rows = <<>>

\* C15: an ingest whose embedding creation failed does not go on to index
\* building: build_faiss_index is never called with the failure value of
\* create_embeddings.
C15_NoBuildOnFailedEmbedding ==
    (last.op = "upload" /\ last.build.called)
        => ~FailedEmbedding(last.build.arg)

\* C16: build_faiss_index called on a zero-length vector sequence fails with
\* EmptyInput: the call ends in an error, the request that made it reports
\* an error and no result of the call is stored in the session.
C16_EmptyBuildFails ==
    (last.op = "upload" /\ last.build.called /\ last.build.arg.rows = <<>>)
        => /\ last.build.out = Raised("EmptyInput")
           /\ last.message # "PDF processed successfully!"

\* the sports other than s that count as many terms as s, or more
Rivals(c, s) == {t \in DOMAIN c : t # s /\ c[t] >= c[s]}

\* C17: detect_sport_type returns a sport other than cricket only when that
\* sport's count is strictly above every other sport's; when the highest
\* count is shared by two or more sports (cricket among them or not), or
\* every count is zero, it returns cricket.
C17_TiesDefaultToCricket ==
    call.done =>
        LET c == counts(call.args.text)
            r == call.out.value
        IN  /\ r # "cricket" => Rivals(c, r) = {}
            /\ (\A s \in DOMAIN c : Rivals(c, s) # {}) => r = "cricket"

\* the score group of C18
ScoreGroup == {"score", "result", "runs", "goals", "points", "final"}

\* the context generate_mock_chat_response reads: the first two chunks
ContextOf(relevant_chunks) ==
    join(" ", SubSeq(relevant_chunks, 1,
                     IF Len(relevant_chunks) < 2 THEN Len(relevant_chunks) ELSE 2))

\* the case of C18: a keyword of the score group stands in the query (in
\* either case of letters), no keyword of the player group does, and no
\* word of the context begins with a digit
ScoreQuestionWithoutNumbers ==
    /\ \E w \in ScoreGroup : In(w, lower(call.args.query))
    /\ ~any_in(player_words, lower(call.args.query))
    /\ numbers_of(ContextOf(call.args.relevant_chunks)) = <<>>

\* C18: a query with a keyword of the score group and none of the player
\* group, asked over a context without a numeric token, is answered with
\* "Close contest with competitive scoring throughout.", whatever the sport
\* detected.
C18_ScoreFallbackAnswer ==
    (call.done /\ ScoreQuestionWithoutNumbers)
        => call.out = Returned("Close contest with competitive scoring throughout.")

C18_Witness ==
    /\ call.done /\ ScoreQuestionWithoutNumbers
    /\ call.args.query = "the FINAL"
    /\ detect_sport_type(ContextOf(call.args.relevant_chunks)) = "football"
    /\ call.out.value = "Close contest with competitive scoring throughout."

\* a text a failed generation call returns
FailureText(v) ==
    /\ "generated" \in DOMAIN v
    /\ startswith(v.generated, "Error:") \/ startswith(v.generated, "MOCK_RESPONSE:")

\* C19: whatever HUGGINGFACE_API_TOKEN is (not set, empty, the placeholder,
\* a token), the article an ingest stores and the response a chat returns
\* are the fallback composer's when the generation call fails, never the
\* text of the failure.
C19_FailedGenerationFallsBack ==
    /\ (last.op = "upload" /\ last.message = "PDF processed successfully!")
          => /\ processed_data.article = generate_mock_article(Extracted[last.input.file])
             /\ ~FailureText(processed_data.article)
    /\ (last.op = "chat" /\ last.status = 200)
          => /\ last.response = mock_chat_response(QueryOf(last.input), last.retrieved)
             /\ ~FailureText(last.response)

C19_Witness ==
    /\ ~mock_mode(environ.HUGGINGFACE_API_TOKEN)
    /\ processed_data.article # None
    /\ last.op = "chat" /\ last.status = 200
    /\ last.response = mock_chat_response(QueryOf(last.input), last.retrieved)

\* the pairs of index and chunks that one request left or leaves: the
\* session before the two requests, and the values of the writing request
PairsOfOneRequest ==
    LET before == IF ingested.cur = 0 THEN EmptyData
                  ELSE IngestOf(CHOOSE f \in FilesWithText : f.doc = ingested.cur,
                                environ)
        after == IF call.writer.op = "clear" THEN clear_data(EmptyData)
                 ELSE IngestOf(call.writer.file, environ)
    IN  {<<before.faiss_index, before.chunks>>, <<after.faiss_index, after.chunks>>}

\* the chat has read the two arguments of its retrieval
ReadForRetrieval ==
    \/ call.reader.pc = "retrieve"
    \/ call.reader.pc = "done" /\ call.reader.status = 200

\* C20: a chat that runs while an upload runs retrieves with a faiss_index
\* and chunks of one and the same ingest: never the index of the new one
\* with the chunks of the old one, or the reverse.
C20_NoSwapMidFlight ==
    (call.writer.op = "upload" /\ ReadForRetrieval)
        => <<call.reader.faiss_index, call.reader.chunks>> \in PairsOfOneRequest

\* C21: whenever the session holds an index, the index holds one vector for
\* each chunk of the session, in the order of the chunks: the vector at
\* position i is the embedding of chunk i.
C21_IndexAlignedWithChunks ==
    processed_data.faiss_index # None
        => /\ Len(processed_data.faiss_index.vectors) = Len(processed_data.chunks)
           /\ \A i \in 1..Len(processed_data.chunks) :
                 processed_data.faiss_index.vectors[i] = encode(processed_data.chunks[i])

\* C21 witness: a second document, of several chunks, is in the session and
\* a chat was served over it.
C21_Witness ==
    /\ processed_data.faiss_index # None
    /\ Len(processed_data.chunks) >= 2
    /\ ingested.old # {}
    /\ last.op = "chat" /\ last.status = 200
    /\ \A i \in 1..Len(processed_data.chunks) :
          processed_data.faiss_index.vectors[i] = encode(processed_data.chunks[i])

\* ceil(n / s) for n >= 0 and s > 0
CeilDiv(n, s) == IF n % s = 0 THEN n \div s ELSE n \div s + 1

\* the words at positions from (0-based) up to but excluding to
WordsFromTo(words, from, to) == [p \in 1..(to - from) |-> words[from + p]]

\* C22: for a text of n words and 0 <= overlap < chunk_size, with stride
\* s = chunk_size - overlap, split_text_into_chunks returns ceil(n / s)
\* chunks, and chunk j (from 0) is the words at the positions j * s up to
\* but excluding min(j * s + chunk_size, n).
C22_SlidingWindows ==
    (/\ call.pc = "done"
     /\ 0 <= call.args.overlap /\ call.args.overlap < call.args.chunk_size)
    => LET words == WordsOf(call.args.text)
           n == Len(words)
           s == call.args.chunk_size - call.args.overlap
           chunks == call.out.value
       IN  /\ Len(chunks) = CeilDiv(n, s)
           /\ \A j \in 0..(Len(chunks) - 1) :
                 chunks[j + 1] =
                    WordsFromTo(words, j * s,
                                IF j * s + call.args.chunk_size < n
                                THEN j * s + call.args.chunk_size ELSE n)

\* C22 witness: a call returned three chunks or more, the last one cut
\* short by the end of the text.
C22_Witness ==
    /\ call.pc = "done"
    /\ 0 < call.args.overlap /\ call.args.overlap < call.args.chunk_size
    /\ Len(call.out.value) >= 3
    /\ Len(call.out.value) =
          CeilDiv(Len(WordsOf(call.args.text)), call.args.chunk_size - call.args.overlap)
    /\ Len(call.out.value[Len(call.out.value)]) < call.args.chunk_size

\* every word of the text of the call stands in one chunk at least
EveryWordInAChunk(chunks) ==
    LET words == WordsOf(call.args.text)
    IN  \A p \in 1..Len(words) :
           \E j \in 1..Len(chunks) : \E q \in 1..Len(chunks[j]) : chunks[j][q] = words[p]

\* the last k words of a chunk (all of it when it has fewer)
LastWords(chunk, k) ==
    SubSeq(chunk, IF Len(chunk) > k THEN Len(chunk) - k + 1 ELSE 1, Len(chunk))

\* the chunk begins with these words
BeginsWith(chunk, ws) == Len(chunk) >= Len(ws) /\ SubSeq(chunk, 1, Len(ws)) = ws

\* a call of the chunker with 0 <= overlap < chunk_size has returned
ChunkedWithOverlap ==
    /\ call.pc = "done"
    /\ 0 <= call.args.overlap /\ call.args.overlap < call.args.chunk_size

\* C25 as claimed: with 0 <= overlap < chunk_size, every word of the text
\* is in a chunk, and every chunk after the first begins with the last
\* overlap words of the chunk before it.
C25_ChunksCoverWithOverlap ==
    ChunkedWithOverlap
    => LET chunks == call.out.value
       IN  /\ EveryWordInAChunk(chunks)
           /\ \A j \in 2..Len(chunks) :
                 BeginsWith(chunks[j], LastWords(chunks[j - 1], call.args.overlap))

\* C25 amended: with 0 <= overlap < chunk_size, every word of the text is
\* in a chunk, and every chunk after the first repeats the chunk before it
\* from that chunk's word chunk_size - overlap on: it begins with the last
\* overlap words of the chunk before it when that chunk has chunk_size
\* words, and with what the text has left of them otherwise.
C25_ChunksCoverWithoutGap ==
    ChunkedWithOverlap
    => LET chunks == call.out.value
           s == call.args.chunk_size - call.args.overlap
       IN  /\ EveryWordInAChunk(chunks)
           /\ \A j \in 2..Len(chunks) :
                 /\ Len(chunks[j - 1]) = call.args.chunk_size
                       => BeginsWith(chunks[j],
                                     LastWords(chunks[j - 1], call.args.overlap))
                 /\ LET m == IF Len(chunks[j]) < call.args.overlap
                             THEN Len(chunks[j]) ELSE call.args.overlap
                    IN  /\ Len(chunks[j - 1]) >= s + m
                        /\ SubSeq(chunks[j], 1, m) = SubSeq(chunks[j - 1], s + 1, s + m)

\* C25 witness: a text ending inside an overlap: the chunk before the last
\* is cut short and the last chunk repeats its end.
C25_Witness ==
    /\ ChunkedWithOverlap
    /\ call.args.overlap >= 2
    /\ Len(call.out.value) >= 3
    /\ Len(call.out.value[Len(call.out.value)]) < call.args.overlap
    /\ EveryWordInAChunk(call.out.value)
    /\ BeginsWith(call.out.value[2], LastWords(call.out.value[1], call.args.overlap))

\* the groups of C23, in their order
GroupOrder ==
    <<"player", "score", "best", "summary", "technical", "temporal", "team",
      "interrogative", "greeting", "thanks">>

\* the keywords of the groups that test for keywords
GroupKeywords ==
    [player |-> {"player", "who", "name", "star", "performer", "captain",
                 "batsman", "bowler"},
     score |-> {"score", "result", "runs", "goals", "points", "final"},
     best |-> {"best", "top", "highest", "most", "outstanding", "stat",
               "performance"},
     summary |-> {"summary", "analysis", "review", "highlight", "key", "important"},
     temporal |-> {"when", "time", "period", "minute", "first", "second", "half"},
     team |-> {"team", "strategy", "tactic", "formation", "captain", "coach"},
     greeting |-> {"hello", "hi", "hey"},
     thanks |-> {"thank", "thanks"}]

\* the technical keywords of the sport detected (none for tennis)
TechnicalKeywords ==
    [cricket |-> {"wicket", "catch", "boundary", "six", "four", "over", "innings"},
     football |-> {"goal", "assist", "penalty", "corner", "foul", "card"},
     basketball |-> {"basket", "dunk", "three", "rebound", "assist", "steal"},
     tennis |-> {}]

\* the predicate of a group on a query in lower case
GroupMatches(group, q, sport_type) ==
    IF group = "technical" THEN \E w \in TechnicalKeywords[sport_type] : In(w, q)
    ELSE IF group = "interrogative"
    THEN \E w \in {"what", "how", "why", "where"} : startswith(q, w)
    ELSE \E w \in GroupKeywords[group] : In(w, q)

\* how the answers of each group begin
GroupAnswers ==
    [player |-> {"Key player: ", "Star players: ", "Key performers showed",
                 "Standout players controlled", "Top scorers dominated",
                 "Multiple players delivered"},
     score |-> {"Match score: ", "Final score: ", "Final points: ",
                "Final result: ", "Close contest with competitive scoring"},
     best |-> {"Top performer: ", "Outstanding performance by ",
               "Excellent batting and bowling statistics",
               "Strong attacking and defensive metrics",
               "High shooting percentages", "Impressive performance statistics"},
     summary |-> {"Well-balanced contest", "Tactical battle", "Fast-paced game",
                  "Competitive match with high-quality"},
     technical |-> {"Exciting cricket action", "Dynamic football",
                    "High-energy basketball"},
     temporal |-> {"Key moments spread", "Important events in both halves",
                   "Crucial plays throughout", "Significant moments distributed"},
     team |-> {"Well-planned team strategy", "Strategic formations",
               "Effective team coordination", "Strong team performance"},
     interrogative |-> {"Exciting cricket match", "Exciting football match",
                        "Exciting basketball match", "Exciting tennis match",
                        "It was a well-contested", "Key match details: ",
                        "Competitive match with good performances.",
                        "Through skillful play", "Multiple runs scored.",
                        "Multiple goals scored.", "Multiple points scored.",
                        "Excellent execution of game plans",
                        "Due to superior strategy", "At the home ground"},
     greeting |-> {"Hello! I can help"},
     thanks |-> {"You're welcome!"}]

AnsweredBy(group, answer) == \E p \in GroupAnswers[group] : startswith(answer, p)

\* the groups, by their place in the order, that match each query over a
\* context of each sport: triples of query, sport and groups
MatchingGroupsOf ==
    {<<q, sport_type,
       {g \in 1..Len(GroupOrder) : GroupMatches(GroupOrder[g], lower(q), sport_type)}>> :
        q \in ChatQueries, sport_type \in DOMAIN TechnicalKeywords}

\* the sport detected in each context: pairs of context and sport
SportOfContext ==
    {<<x, detect_sport_type(x)>> : x \in {ContextOf(c) : c \in ChatChunkSeqs}}

\* the groups that match the query of the call
MatchingGroups ==
    LET x == ContextOf(call.args.relevant_chunks)
        sport_type == (CHOOSE p \in SportOfContext : p[1] = x)[2]
    IN  (CHOOSE t \in MatchingGroupsOf :
            t[1] = call.args.query /\ t[2] = sport_type)[3]

\* C23: generate_mock_chat_response gives the answer of the first group, in
\* the order player, score, best/top, summary, technical, temporal,
\* team/strategy, leading interrogative, greeting, thanks, whose predicate
\* matches the query; no group after it gives the answer.
C23_FirstMatchingGroupAnswers ==
    (call.done /\ MatchingGroups # {})
        => LET first == CHOOSE g \in MatchingGroups : \A h \in MatchingGroups : g <= h
           IN  /\ AnsweredBy(GroupOrder[first], call.out.value)
               /\ \A h \in (first + 1)..Len(GroupOrder) :
                     ~AnsweredBy(GroupOrder[h], call.out.value)

\* C23 witness: a query of the player group and the score group was given
\* the player group's answer.
C23_Witness ==
    /\ call.done
    /\ call.args.query = "who scored"
    /\ {1, 2} \subseteq MatchingGroups
    /\ AnsweredBy("player", call.out.value)

\* C24: no two names of the list extract_mock_star_players returns are
\* equal ignoring case, also when the list was filled up from the names of
\* the sport.
C24_PlayersDeduplicated ==
    call.done =>
        \A i \in 1..Len(call.out.value) : \A j \in 1..Len(call.out.value) :
            i # j => lower(call.out.value[i]) # lower(call.out.value[j])

====
